---- MODULE Spec2Model ----
(***************************************************************************)
(* Model of server-sqlite.js: the sync endpoints GET/POST                  *)
(* /api/sync/:userId and GET /api/admin/stats over the SQLite table users. *)
(*                                                                         *)
(* Strings are sequences of one-character strings (UTF-16 code units; the  *)
(* two code units outside ASCII that the model uses are written "U+0130"   *)
(* and "U+212A").  Timestamps are readings of the server clock: the ISO    *)
(* text of Date.prototype.toISOString orders as the clock does, and the    *)
(* code stores and returns it without reading it back.                     *)
(*                                                                         *)
(* The requests of the model are those that reach a handler: the rate      *)
(* limiters and express.json run before it and are not modelled.           *)
(***************************************************************************)
EXTENDS Integers, Sequences, FiniteSets, TLC

VARIABLES table, now, resp, putRaw, committed, inflight, raced, input, output

vars == <<table, now, resp, putRaw, committed, inflight, raced, input, output>>

---------------------------------------------------------------------------
(* Bounds *)

\* the server clock runs from 0 to MaxClock
MaxClock == 1
\* at most this many requests are in flight at once (SpecConc)
MaxInflight == 2
\* raw identifiers of at most this length are enumerated (SpecNorm)
MaxRawLen == 3

---------------------------------------------------------------------------
(* Characters and String.prototype.toLowerCase *)

Upper == <<"A","B","C","D","E","F","G","H","I","J","K","L","M",
           "N","O","P","Q","R","S","T","U","V","W","X","Y","Z">>
Lower == <<"a","b","c","d","e","f","g","h","i","j","k","l","m",
           "n","o","p","q","r","s","t","u","v","w","x","y","z">>
DigitChars == <<"0","1","2","3","4","5","6","7","8","9">>

Range(s) == { s[i] : i \in DOMAIN s }

UpperSet == Range(Upper)
DigitSet == Range(DigitChars)
\* the character class [a-z0-9_-]
ClassSet == Range(Lower) \cup DigitSet \cup {"_", "-"}
\* the lowercase letter of each uppercase one
LowerOf == [c \in UpperSet |-> Lower[CHOOSE i \in DOMAIN Upper : Upper[i] = c]]

\* the code units a lowercased character becomes
LowerChar(c) ==
    IF c \in UpperSet THEN << LowerOf[c] >>
    ELSE IF c = "U+0130" THEN << "i", "U+0307" >>
    ELSE IF c = "U+212A" THEN << "k" >>
    ELSE << c >>

RECURSIVE ToLowerCase(_)
ToLowerCase(s) ==
    IF s = << >> THEN << >> ELSE LowerChar(Head(s)) \o ToLowerCase(Tail(s))

InClass(c) == c \in ClassSet

\* .replace(/[^a-z0-9_-]/, '') without the g flag: the first match only
RECURSIVE ReplaceFirst(_)
ReplaceFirst(s) ==
    IF s = << >> THEN << >>
    ELSE IF InClass(Head(s)) THEN << Head(s) >> \o ReplaceFirst(Tail(s))
    ELSE Tail(s)

\* .replace(/[^a-z0-9_-]/g, '')
StripOutsideClass(s) == SelectSeq(s, InClass)

\* req.params.userId.toLowerCase().replace(/[^a-z0-9_-]/g, '')
Normalize(raw) == StripOutsideClass(ToLowerCase(raw))

MinIdLen == 3
MaxIdLen == 30

\* the guard accepting one character too few
ValidUserIdShort(userId) ==
    ~ (userId = << >> \/ Len(userId) < MinIdLen - 1 \/ Len(userId) > MaxIdLen)

\* the negation of: !userId || userId.length < 3 || userId.length > 30
ValidUserId(userId) ==
    ~ (userId = << >> \/ Len(userId) < MinIdLen \/ Len(userId) > MaxIdLen)

---------------------------------------------------------------------------
(* JavaScript values of a parsed JSON body, JSON.stringify and JSON.parse. *)
(* Objects are flat: their property values are strings.                    *)

Undefined == [kind |-> "undefined"]
JsNull == [kind |-> "null"]
JsBool(b) == [kind |-> "boolean", b |-> b]
JsNum(n) == [kind |-> "number", n |-> n]
JsStr(s) == [kind |-> "string", s |-> s]
JsObj(props) == [kind |-> "object", props |-> props]

\* ToBoolean: what `v ? a : b` tests
Truthy(v) ==
    CASE v.kind = "undefined" -> FALSE
      [] v.kind = "null" -> FALSE
      [] v.kind = "boolean" -> v.b
      [] v.kind = "number" -> v.n # 0
      [] v.kind = "string" -> v.s # << >>
      [] v.kind = "object" -> TRUE

RECURSIVE Digits(_)
Digits(n) ==
    IF n < 10 THEN << DigitChars[n + 1] >>
    ELSE Digits(n \div 10) \o << DigitChars[(n % 10) + 1] >>

RECURSIVE Escape(_)
Escape(s) ==
    IF s = << >> THEN << >>
    ELSE (IF Head(s) \in {"\"", "\\"} THEN << "\\", Head(s) >> ELSE << Head(s) >>)
         \o Escape(Tail(s))

Quote(s) == << "\"" >> \o Escape(s) \o << "\"" >>

RECURSIVE StringifyProps(_)
StringifyProps(props) ==
    IF props = << >> THEN << >>
    ELSE Quote(Head(props).key) \o << ":" >> \o Quote(Head(props).val)
         \o (IF Tail(props) = << >> THEN << >> ELSE << "," >>)
         \o StringifyProps(Tail(props))

\* JSON.stringify(v), for the values JSON can carry
Stringify(v) ==
    CASE v.kind = "null" -> << "n", "u", "l", "l" >>
      [] v.kind = "boolean" ->
           IF v.b THEN << "t", "r", "u", "e" >> ELSE << "f", "a", "l", "s", "e" >>
      [] v.kind = "number" -> Digits(v.n)
      [] v.kind = "string" -> Quote(v.s)
      [] v.kind = "object" -> << "{" >> \o StringifyProps(v.props) \o << "}" >>

ParseError == [kind |-> "SyntaxError"]

DigitValue(c) == (CHOOSE i \in DOMAIN DigitChars : DigitChars[i] = c) - 1

RECURSIVE ScanDigits(_, _)
ScanDigits(t, acc) ==
    IF t # << >> /\ Head(t) \in DigitSet
    THEN ScanDigits(Tail(t), 10 * acc + DigitValue(Head(t)))
    ELSE [ok |-> TRUE, val |-> acc, rest |-> t]

\* the characters of a string literal, after its opening quote
RECURSIVE ScanString(_, _)
ScanString(t, acc) ==
    IF t = << >> THEN [ok |-> FALSE, val |-> acc, rest |-> t]
    ELSE IF Head(t) = "\"" THEN [ok |-> TRUE, val |-> acc, rest |-> Tail(t)]
    ELSE IF Head(t) = "\\"
         THEN IF Len(t) < 2 THEN [ok |-> FALSE, val |-> acc, rest |-> t]
              ELSE ScanString(Tail(Tail(t)), Append(acc, t[2]))
    ELSE ScanString(Tail(t), Append(acc, Head(t)))

ScanQuoted(t) ==
    IF t # << >> /\ Head(t) = "\"" THEN ScanString(Tail(t), << >>)
    ELSE [ok |-> FALSE, val |-> << >>, rest |-> t]

\* the properties of an object literal, after its opening brace
RECURSIVE ScanProps(_, _)
ScanProps(t, acc) ==
    LET k == ScanQuoted(t) IN
    IF ~ k.ok \/ k.rest = << >> \/ Head(k.rest) # ":"
    THEN [ok |-> FALSE, val |-> acc, rest |-> t]
    ELSE LET v == ScanQuoted(Tail(k.rest))
             got == Append(acc, [key |-> k.val, val |-> v.val])
         IN IF ~ v.ok \/ v.rest = << >> THEN [ok |-> FALSE, val |-> acc, rest |-> t]
            ELSE IF Head(v.rest) = "}" THEN [ok |-> TRUE, val |-> got, rest |-> Tail(v.rest)]
            ELSE IF Head(v.rest) = "," THEN ScanProps(Tail(v.rest), got)
            ELSE [ok |-> FALSE, val |-> acc, rest |-> t]

\* JSON.parse(t): the value, or ParseError where JSON.parse throws
Parse(t) ==
    IF t = << "n", "u", "l", "l" >> THEN JsNull
    ELSE IF t = << "t", "r", "u", "e" >> THEN JsBool(TRUE)
    ELSE IF t = << "f", "a", "l", "s", "e" >> THEN JsBool(FALSE)
    ELSE IF t = << >> THEN ParseError
    ELSE IF Head(t) \in DigitSet
         THEN LET r == ScanDigits(t, 0) IN
              IF r.rest = << >> THEN JsNum(r.val) ELSE ParseError
    ELSE IF Head(t) = "\""
         THEN LET r == ScanQuoted(t) IN
              IF r.ok /\ r.rest = << >> THEN JsStr(r.val) ELSE ParseError
    ELSE IF Head(t) = "{"
         THEN IF t = << "{", "}" >> THEN JsObj(<< >>)
              ELSE LET r == ScanProps(Tail(t), << >>) IN
                   IF r.ok /\ r.rest = << >> THEN JsObj(r.val) ELSE ParseError
    ELSE ParseError

---------------------------------------------------------------------------
(* The table users: user_id TEXT PRIMARY KEY, paris_data TEXT,             *)
(* london_data TEXT, updated_at TEXT.  A table is a function from the      *)
(* user_id values present to their rows.                                   *)

SqlNull == [sql |-> "NULL"]
SqlText(t) == [sql |-> "TEXT", text |-> t]

EmptyTable == [k \in {} |-> SqlNull]

\* what `col ? a : b` tests of a column read back: null and '' are falsy
ColTruthy(col) == col.sql = "TEXT" /\ col.text # << >>

\* ON CONFLICT ... SET with COALESCE(excluded.c, c): a merge with the old row
UpsertMerge(tbl, userId, parisData, londonData, updatedAt) ==
    [k \in DOMAIN tbl \cup {userId} |->
        IF k # userId THEN tbl[k]
        ELSE IF userId \notin DOMAIN tbl
             THEN [paris_data |-> parisData, london_data |-> londonData,
                   updated_at |-> updatedAt]
        ELSE [paris_data |-> IF parisData = SqlNull THEN tbl[k].paris_data
                             ELSE parisData,
              london_data |-> IF londonData = SqlNull THEN tbl[k].london_data
                              ELSE londonData,
              updated_at |-> updatedAt]]

\* INSERT INTO users ... ON CONFLICT(user_id) DO UPDATE SET all three columns
Upsert(tbl, userId, parisData, londonData, updatedAt) ==
    [k \in DOMAIN tbl \cup {userId} |->
        IF k = userId
        THEN [paris_data |-> parisData, london_data |-> londonData,
              updated_at |-> updatedAt]
        ELSE tbl[k]]

\* the message of the error the driver throws; NoError when the statement runs
NoError == "none"
DriverErrors == { "SQLITE_IOERR: disk I/O error" }
Errs == {NoError} \cup DriverErrors

\* a statement that throws after writing paris_data alone
StmtRunTorn(tbl, userId, parisData, londonData, updatedAt, err) ==
    IF err = NoError THEN Upsert(tbl, userId, parisData, londonData, updatedAt)
    ELSE IF userId \in DOMAIN tbl
         THEN [tbl EXCEPT ![userId].paris_data = parisData]
    ELSE Upsert(tbl, userId, parisData, SqlNull, updatedAt)

\* db.prepare(...) and stmt.run(...): the statement commits whole, or throws
\* and leaves the table as it was
StmtRun(tbl, userId, parisData, londonData, updatedAt, err) ==
    IF err = NoError THEN Upsert(tbl, userId, parisData, londonData, updatedAt)
    ELSE tbl

\* req.body.f ? JSON.stringify(req.body.f) : null
EncodeField(v) == IF Truthy(v) THEN SqlText(Stringify(v)) ELSE SqlNull

\* row.f ? JSON.parse(row.f) : null
DecodeField(col) == IF ColTruthy(col) THEN Parse(col.text) ELSE JsNull

\* SELECT COUNT(paris_data): the rows whose paris_data is not null
CountParis(tbl) == Cardinality({ k \in DOMAIN tbl : tbl[k].paris_data # SqlNull })

\* SELECT COUNT(*) as count FROM users
CountUsers(tbl) == Cardinality(DOMAIN tbl)

---------------------------------------------------------------------------
(* The requests of the model *)

Repeat(c, n) == [i \in 1..n |-> c]

Alice == << "a", "l", "i", "c", "e" >>
AliceBang == << "A", "l", "i", "c", "e", "!" >>
\* two characters once normalized: too short
ShortId == << "a", "!", "B" >>
\* MaxIdLen characters once normalized: the longest accepted
LongId == << "A" >> \o Repeat("a", MaxIdLen - 1) \o << "!" >>
\* MaxIdLen + 1 characters: too long
TooLongId == Repeat("a", MaxIdLen + 1)

RawIds == { Alice, AliceBang, ShortId, LongId, TooLongId }

Louvre == JsObj(<< [key |-> << "d", "a", "y", "1" >>,
                    val |-> << "l", "o", "u", "v", "r", "e" >>] >>)
Quoted == JsStr(<< "a", "\"", "b" >>)

\* a field is omitted (Undefined) or carries a JSON value
JsonValues == { JsNull, JsBool(FALSE), JsNum(0), JsStr(<< >>), Louvre, Quoted }
FieldValues == {Undefined} \cup JsonValues
PlainFields == { Undefined, Louvre }
FewFields == { Undefined, JsNull, JsNum(0), Louvre }

Body(p, l, u) == [paris |-> p, london |-> l, updatedAt |-> u]

\* req.body: paris and london, and for one body an updatedAt of the client's
Bodies ==
    { Body(p, l, Undefined) : p \in FieldValues, l \in PlainFields }
    \cup { Body(p, l, Undefined) : p \in PlainFields, l \in FewFields }
    \cup { Body(Quoted, Undefined, JsNum(0)) }

\* The conversions of the values the requests carry, computed once: the
\* handlers look them up (UserIdOf, Encoded, Decoded) instead of converting
\* the same strings again in every step.
NormalizedIds == [raw \in RawIds |-> Normalize(raw)]
EncodedFields == [v \in FieldValues |-> EncodeField(v)]
Columns == { EncodeField(v) : v \in FieldValues }
DecodedColumns == [col \in Columns |-> DecodeField(col)]

UserIdOf(raw) == IF raw \in RawIds THEN NormalizedIds[raw] ELSE Normalize(raw)
Encoded(v) == IF v \in FieldValues THEN EncodedFields[v] ELSE EncodeField(v)
Decoded(col) == IF col \in Columns THEN DecodedColumns[col] ELSE DecodeField(col)

---------------------------------------------------------------------------
(* The handlers, as functions of the table, the clock, the request and     *)
(* the outcome of the driver call.                                         *)

InvalidId(route) == [route |-> route, status |-> 400, error |-> "Invalid user ID"]
Failure(route, msg) == [route |-> route, status |-> 500, error |-> msg]

\* app.get('/api/sync/:userId')
GetSync(tbl, raw, err) ==
    LET userId == UserIdOf(raw) IN
    IF ~ ValidUserId(userId) THEN InvalidId("getSync")
    ELSE IF err # NoError THEN Failure("getSync", "Database error")
    ELSE IF userId \in DOMAIN tbl
         THEN LET row == tbl[userId]
                  paris == Decoded(row.paris_data)
                  london == Decoded(row.london_data)
              IN IF ParseError \in {paris, london}
                 THEN Failure("getSync", "Database error")
                 ELSE [route |-> "getSync", status |-> 200, success |-> TRUE,
                       data |-> [paris |-> paris, london |-> london,
                                 updatedAt |-> row.updated_at]]
    ELSE [route |-> "getSync", status |-> 200, success |-> TRUE, data |-> JsNull]

NoRun == [ran |-> FALSE]

\* the handler taking updatedAt from the body when the body carries one
PostSyncClientTime(tbl, clock, raw, body, err) ==
    LET userId == UserIdOf(raw)
        updatedAt == IF body.updatedAt.kind = "number" THEN body.updatedAt.n
                     ELSE clock
        parisData == Encoded(body.paris)
        londonData == Encoded(body.london)
    IN IF ~ ValidUserId(userId)
       THEN [table |-> tbl, resp |-> InvalidId("postSync"), run |-> NoRun]
       ELSE IF err # NoError
            THEN [table |-> tbl, resp |-> Failure("postSync", "Failed to save data"),
                  run |-> NoRun]
       ELSE [table |-> Upsert(tbl, userId, parisData, londonData, updatedAt),
             resp |-> [route |-> "postSync", status |-> 200, success |-> TRUE,
                       updatedAt |-> updatedAt],
             run |-> [ran |-> TRUE, userId |-> userId, paris_data |-> parisData,
                      london_data |-> londonData, updated_at |-> updatedAt]]

\* the handler keyed by the lowercased identifier, nothing stripped
PostSyncRawKey(tbl, clock, raw, body, err) ==
    LET userId == ToLowerCase(raw)
        parisData == Encoded(body.paris)
        londonData == Encoded(body.london)
    IN IF ~ ValidUserId(userId)
       THEN [table |-> tbl, resp |-> InvalidId("postSync"), run |-> NoRun]
       ELSE IF err # NoError
            THEN [table |-> tbl, resp |-> Failure("postSync", "Failed to save data"),
                  run |-> NoRun]
       ELSE [table |-> Upsert(tbl, userId, parisData, londonData, clock),
             resp |-> [route |-> "postSync", status |-> 200, success |-> TRUE,
                       updatedAt |-> clock],
             run |-> [ran |-> TRUE, userId |-> userId, paris_data |-> parisData,
                      london_data |-> londonData, updated_at |-> clock]]

\* app.post('/api/sync/:userId'): the table after it, its response, and the
\* parameters stmt.run was given when it committed
PostSync(tbl, clock, raw, body, err) ==
    LET userId == UserIdOf(raw)
        updatedAt == clock
        parisData == Encoded(body.paris)
        londonData == Encoded(body.london)
    IN IF ~ ValidUserId(userId)
       THEN [table |-> tbl, resp |-> InvalidId("postSync"), run |-> NoRun]
       ELSE [table |-> StmtRun(tbl, userId, parisData, londonData, updatedAt, err),
             resp |-> IF err = NoError
                      THEN [route |-> "postSync", status |-> 200, success |-> TRUE,
                            updatedAt |-> updatedAt]
                      ELSE Failure("postSync", "Failed to save data"),
             run |-> IF err = NoError
                     THEN [ran |-> TRUE, userId |-> userId, paris_data |-> parisData,
                           london_data |-> londonData, updated_at |-> updatedAt]
                     ELSE NoRun]

\* app.get('/api/admin/stats')
Stats(tbl, err) ==
    IF err = NoError
    THEN [route |-> "stats", status |-> 200, userCount |-> CountUsers(tbl)]
    ELSE Failure("stats", err)

---------------------------------------------------------------------------
(* State *)

\* table     the rows of users
\* now       the server clock
\* resp      the response last sent
\* putRaw    history: the raw identifiers a Put has succeeded under
\* committed history: per user_id, the parameters of the last stmt.run that
\*           committed and the updatedAt its response carried
\* inflight  the Puts sent and not yet handled, oldest first (SpecConc)
\* raced     history: two Puts of one key that were in flight together have
\*           both committed (SpecConc)
\* input     the raw identifier of a request (SpecNorm)
\* output    its normalized form and the status of the Get under it (SpecNorm)

NoResponse == [route |-> "none", status |-> 0]
NoOutput == [done |-> FALSE]

Init ==
    /\ table = EmptyTable
    /\ now = 0
    /\ resp = NoResponse
    /\ putRaw = {}
    /\ committed = EmptyTable
    /\ inflight = << >>
    /\ raced = FALSE
    /\ input = << >>
    /\ output = NoOutput

\* what a handled Put leaves in the history
Record(raw, res) ==
    IF res.run.ran
    THEN /\ putRaw' = putRaw \cup {raw}
         /\ committed' =
                [k \in DOMAIN committed \cup {res.run.userId} |->
                    IF k = res.run.userId
                    THEN [paris_data |-> res.run.paris_data,
                          london_data |-> res.run.london_data,
                          updated_at |-> res.run.updated_at,
                          returned |-> res.resp.updatedAt]
                    ELSE committed[k]]
    ELSE UNCHANGED <<putRaw, committed>>

\* GET /api/sync/:userId
Get(raw, err) ==
    /\ resp' = GetSync(table, raw, err)
    /\ UNCHANGED <<table, now, putRaw, committed, inflight, raced, input, output>>

\* POST /api/sync/:userId
Put(raw, body, err) ==
    \E res \in { PostSync(table, now, raw, body, err) } :
    /\ table' = res.table
    /\ resp' = res.resp
    /\ Record(raw, res)
    /\ UNCHANGED <<now, inflight, raced, input, output>>

\* GET /api/admin/stats
GetStats(err) ==
    /\ resp' = Stats(table, err)
    /\ UNCHANGED <<table, now, putRaw, committed, inflight, raced, input, output>>

\* the server clock advances
Tick ==
    /\ now < MaxClock
    /\ now' = now + 1
    /\ UNCHANGED <<table, resp, putRaw, committed, inflight, raced, input, output>>

Next ==
    \/ \E raw \in RawIds, err \in Errs : Get(raw, err)
    \/ \E raw \in RawIds, body \in Bodies, err \in Errs : Put(raw, body, err)
    \/ \E err \in Errs : GetStats(err)
    \/ Tick

Spec == Init /\ [][Next]_vars

---------------------------------------------------------------------------
(* SpecConc: Puts that overlap in time.  The handlers are synchronous and  *)
(* the process is single (one instance), so a handler runs from its first  *)
(* line to its response with no other handler in between; requests overlap *)
(* between being sent and being handled, and are handled in any order.     *)

ParisOnly == Body(Louvre, Undefined, Undefined)
LondonOnly == Body(Undefined, Quoted, Undefined)

ConcPuts == { [raw |-> Alice, body |-> ParisOnly],
              [raw |-> AliceBang, body |-> LondonOnly],
              [raw |-> LongId, body |-> ParisOnly] }
ConcIds == { p.raw : p \in ConcPuts }

\* a client sends a Put
SendPut(p) ==
    /\ Len(inflight) < MaxInflight
    /\ inflight' = Append(inflight, [raw |-> p.raw, body |-> p.body, overlapped |-> FALSE])
    /\ UNCHANGED <<table, now, resp, putRaw, committed, raced, input, output>>

\* inflight without its i-th request; when a Put of key has committed, the
\* requests of that key still in flight are marked as having overlapped it
Remaining(i, key, ran) ==
    [j \in 1..(Len(inflight) - 1) |->
        LET r == inflight[IF j < i THEN j ELSE j + 1] IN
        IF ran /\ UserIdOf(r.raw) = key THEN [r EXCEPT !.overlapped = TRUE] ELSE r]

\* the server handles the i-th Put in flight
HandlePut(i, err) ==
    /\ i \in DOMAIN inflight
    /\ \E res \in { PostSync(table, now, inflight[i].raw, inflight[i].body, err) } :
          /\ table' = res.table
          /\ resp' = res.resp
          /\ Record(inflight[i].raw, res)
          /\ inflight' = Remaining(i, UserIdOf(inflight[i].raw), res.run.ran)
          /\ raced' = (raced \/ (res.run.ran /\ inflight[i].overlapped))
    /\ UNCHANGED <<now, input, output>>

NextConc ==
    \/ \E p \in ConcPuts : SendPut(p)
    \/ \E i \in 1..MaxInflight, err \in Errs : HandlePut(i, err)
    \/ \E raw \in ConcIds : Get(raw, NoError)
    \/ Tick

SpecConc == Init /\ [][NextConc]_vars

\* C6: whatever Puts overlapped, the record of a key is whole: its three
\* columns are the parameters of the one Put of that key that committed
\* last, and a Get returns that Put's paris, london and updatedAt.
C6_LastCommitWins ==
    /\ DOMAIN table = DOMAIN committed
    /\ \A raw \in ConcIds : \A key \in { UserIdOf(raw) } :
          key \in DOMAIN committed =>
              /\ table[key] = [paris_data |-> committed[key].paris_data,
                               london_data |-> committed[key].london_data,
                               updated_at |-> committed[key].updated_at]
              /\ GetSync(table, raw, NoError).data =
                    [paris |-> Decoded(committed[key].paris_data),
                     london |-> Decoded(committed[key].london_data),
                     updatedAt |-> committed[key].returned]

W_C6 ==
    /\ raced
    /\ inflight = << >>
    /\ resp.route = "getSync"
    /\ resp.status = 200
    /\ resp.data # JsNull
    /\ now = MaxClock

---------------------------------------------------------------------------
(* SpecNorm: identifier normalization over every string of at most         *)
(* MaxRawLen characters of NormChars, the identifiers of the requests and  *)
(* the identifier "Paris_123!".                                            *)

NormChars == { "a", "B", "7", "_", "-", "!", "U+0130", "U+212A" }
Paris123Bang == << "P", "a", "r", "i", "s", "_", "1", "2", "3", "!" >>
Paris123 == << "p", "a", "r", "i", "s", "_", "1", "2", "3" >>

NormInputs ==
    UNION { [1..n -> NormChars] : n \in 0..MaxRawLen } \cup RawIds \cup {Paris123Bang}

InitNorm ==
    /\ table = EmptyTable
    /\ now = 0
    /\ resp = NoResponse
    /\ putRaw = {}
    /\ committed = EmptyTable
    /\ inflight = << >>
    /\ raced = FALSE
    /\ input \in NormInputs
    /\ output = NoOutput

\* a Get under the raw identifier: the key it reaches and its status
NormalizeInput ==
    /\ ~ output.done
    /\ output' = [done |-> TRUE, userId |-> Normalize(input),
                  status |-> GetSync(table, input, NoError).status]
    /\ UNCHANGED <<table, now, resp, putRaw, committed, inflight, raced, input>>

\* the normalized form becomes the identifier of the next request
Resubmit ==
    /\ output.done
    /\ input' = output.userId
    /\ output' = NoOutput
    /\ UNCHANGED <<table, now, resp, putRaw, committed, inflight, raced>>

NextNorm == NormalizeInput \/ Resubmit

SpecNorm == InitNorm /\ [][NextNorm]_vars

\* C9: normalizing a normalized identifier returns it unchanged, so a request
\* under the normalized form of an accepted identifier is accepted and
\* reaches the same key; "Paris_123!" normalizes to "paris_123".
C9_NormalizeIdempotent ==
    output.done =>
        /\ Normalize(output.userId) = output.userId
        /\ output.status = 200 =>
              /\ GetSync(table, output.userId, NoError).status = 200
              /\ UserIdOf(output.userId) = UserIdOf(input)
        /\ input = Paris123Bang => output.userId = Paris123

W_C9 ==
    /\ output.done
    /\ input = Paris123Bang
    /\ output.status = 200

---------------------------------------------------------------------------
(* Claims over Spec.  A claim about what a request does in any state is    *)
(* stated over every reachable state and every request of the model.       *)

\* the value a Get returns for a submitted field: null for an omitted one
Submitted(v) == IF v = Undefined THEN JsNull ELSE v

\* the raw identifier is rejected: its normalized form is too short or too long
Rejected(raw) == Len(UserIdOf(raw)) < MinIdLen \/ Len(UserIdOf(raw)) > MaxIdLen

\* the rows of tbl other than key are those of old
OthersKept(tbl, old, key) ==
    /\ DOMAIN tbl \ {key} = DOMAIN old \ {key}
    /\ \A k \in DOMAIN old \ {key} : tbl[k] = old[k]

\* C1: a successful POST immediately followed by a GET of the same identifier
\* returns exactly the submitted paris and london (null for an omitted field),
\* and the updatedAt the POST returned, no older than the POST's invocation.
C1_RoundTrip ==
    [][\A raw \in RawIds, body \in Bodies :
          (Put(raw, body, NoError) /\ resp'.status = 200) =>
              LET got == GetSync(table', raw, NoError) IN
              /\ got.status = 200
              /\ got.data = [paris |-> Submitted(body.paris),
                             london |-> Submitted(body.london),
                             updatedAt |-> resp'.updatedAt]
              /\ resp'.updatedAt >= now]_vars

\* C2: a successful Put that omits one field and supplies the other leaves
\* the omitted field null and the other field the supplied value, whatever
\* record the key held before.
C2_FullOverwrite ==
    [][\A raw \in RawIds, body \in Bodies :
          (Put(raw, body, NoError) /\ resp'.status = 200
              /\ (body.paris = Undefined) # (body.london = Undefined)) =>
              LET got == GetSync(table', raw, NoError) IN
              /\ got.status = 200
              /\ got.data.paris = Submitted(body.paris)
              /\ got.data.london = Submitted(body.london)]_vars

\* C3: a GET or POST whose identifier normalizes to fewer than 3 or more than
\* 30 characters answers 400 whatever the store would do, runs no statement
\* and leaves the whole table as it was.
C3_InvalidIdRejected ==
    \A raw \in RawIds : Rejected(raw) =>
        \A err \in Errs :
            /\ GetSync(table, raw, err).status = 400
            /\ \A body \in Bodies :
                  \A res \in { PostSync(table, now, raw, body, err) } :
                  /\ res.resp.status = 400
                  /\ res.table = table
                  /\ ~ res.run.ran

W_C3 ==
    /\ resp.route = "postSync"
    /\ resp.status = 400
    /\ table # EmptyTable

\* C4: stats returns the number of distinct normalized identifiers a Put has
\* succeeded under; no request lowers the count, and only a successful Put
\* to a key not yet present raises it.
C4_UserCount ==
    LET put == { UserIdOf(r) : r \in putRaw } IN
    /\ Stats(table, NoError).status = 200
    /\ Stats(table, NoError).userCount = Cardinality(put)
    /\ (resp.route = "stats" /\ resp.status = 200) => resp.userCount <= Cardinality(put)
    /\ \A raw \in RawIds, body \in Bodies, err \in Errs :
          \A res \in { PostSync(table, now, raw, body, err) } :
          \A after \in { Stats(res.table, NoError).userCount } :
             /\ after >= Cardinality(put)
             /\ after > Cardinality(put) =>
                   (res.resp.status = 200 /\ UserIdOf(raw) \notin put)

W_C4 ==
    /\ resp.route = "stats"
    /\ resp.status = 200
    /\ resp.userCount = 2
    /\ {Alice, AliceBang, LongId} \subseteq putRaw

\* C5: a 500 never carries the driver's error message.
C5_GenericMessage == resp.status = 500 => resp.error \notin DriverErrors

\* C7: a Put whose write fails answers 500 and leaves the whole table as it
\* was; a Put that succeeds sets all three columns of its key to the new
\* values and leaves every other row as it was.
C7_NoPartialWrite ==
    \A raw \in RawIds, body \in Bodies, err \in Errs :
        ~ Rejected(raw) =>
            \A res \in { PostSync(table, now, raw, body, err) } :
            \A key \in { UserIdOf(raw) } :
               IF err # NoError
               THEN res.resp.status = 500 /\ res.table = table
               ELSE /\ res.resp.status = 200
                    /\ key \in DOMAIN res.table
                    /\ res.table[key] = [paris_data |-> Encoded(body.paris),
                                         london_data |-> Encoded(body.london),
                                         updated_at |-> res.resp.updatedAt]
                    /\ OthersKept(res.table, table, key)

W_C7 ==
    /\ resp.route = "postSync"
    /\ resp.status = 500
    /\ table # EmptyTable

\* C8: the stored updatedAt of every key is the timestamp the last committed
\* Put of that key returned; a Put takes it from the server clock, whatever
\* the body carries, and never moves a stored updatedAt backwards.
C8_UpdatedAt ==
    /\ \A k \in DOMAIN table :
          /\ k \in DOMAIN committed
          /\ table[k].updated_at = committed[k].returned
          /\ table[k].updated_at <= now
    /\ \A raw \in RawIds, body \in Bodies :
          \A res \in { PostSync(table, now, raw, body, NoError) } :
          res.run.ran =>
              /\ res.resp.updatedAt = now
              /\ res.table[UserIdOf(raw)].updated_at = now
              /\ \A k \in DOMAIN table : res.table[k].updated_at >= table[k].updated_at

W_C8 ==
    /\ {Alice, AliceBang} \subseteq putRaw
    /\ Alice \in DOMAIN table
    /\ table[Alice].updated_at = MaxClock
    /\ resp.route = "postSync"
    /\ resp.status = 200

\* C10: raw identifiers with one normalized form address one record: a Put
\* under one is what a Get under the other returns, and a Get returns
\* data:null exactly when no Put has succeeded under any raw identifier of
\* the same normalized form.
C10_SameRecord ==
    \A r1 \in RawIds : ~ Rejected(r1) =>
        /\ (GetSync(table, r1, NoError).data = JsNull)
              <=> ~ \E r \in putRaw : UserIdOf(r) = UserIdOf(r1)
        /\ \A r2 \in RawIds : UserIdOf(r2) = UserIdOf(r1) =>
              /\ GetSync(table, r2, NoError) = GetSync(table, r1, NoError)
              /\ \A body \in Bodies :
                    \A res \in { PostSync(table, now, r1, body, NoError) } :
                    \A got \in { GetSync(res.table, r2, NoError) } :
                       /\ res.run.ran
                       /\ got.status = 200
                       /\ got.data = [paris |-> Decoded(res.run.paris_data),
                                      london |-> Decoded(res.run.london_data),
                                      updatedAt |-> res.resp.updatedAt]

W_C10 ==
    /\ {Alice, AliceBang} \subseteq putRaw
    /\ DOMAIN table = {Alice}
    /\ resp.route = "getSync"
    /\ resp.status = 200
    /\ resp.data # JsNull

====
